---- MODULE Spec2Model ----
(***************************************************************************)
(* Model of src/sigid_csv_to_json.py: main() reads db.csv line by line,    *)
(* splits each line on '*', keeps the records whose two frequency bounds   *)
(* are not both zero, sorts them by decreasing bandwidth and dumps them as *)
(* JSON into frequencies.json.                                             *)
(*                                                                         *)
(* Text is modelled as a sequence of one-character strings, so that        *)
(* splitting, integer parsing, repr() and the JSON encoding are computed   *)
(* character by character as the interpreter computes them.                *)
(***************************************************************************)
EXTENDS Integers, Sequences, FiniteSets, Bags, TLC

VARIABLES inFile, outFile, prior, pc, err, pos, out, stdout, nchunks

vars == <<inFile, outFile, prior, pc, err, pos, out, stdout, nchunks>>

----------------------------------------------------------------------------
(* Bounds of the model.                                                    *)

\* largest number of lines of db.csv
MaxLines == 3

----------------------------------------------------------------------------
(* Text helpers.                                                           *)

NL == "\n"
Star == "*"

Digits == <<"0", "1", "2", "3", "4", "5", "6", "7", "8", "9">>
DigitSet == {Digits[i] : i \in 1..10}
DigitVal(c) == (CHOOSE i \in 1..10 : Digits[i] = c) - 1

\* characters str.strip() and int() treat as white space
Whitespace == {" ", NL, "\t"}

RECURSIVE Flatten(_)
Flatten(ss) == IF ss = <<>> THEN <<>> ELSE Head(ss) \o Flatten(Tail(ss))

Reverse(s) == [i \in 1..Len(s) |-> s[Len(s) + 1 - i]]

\* the next line "for line in f" yields when pos characters have been read:
\* up to and including the next line terminator, or up to the end of the text
NextLine(text, pos0) ==
    LET ends == {j \in (pos0 + 1)..Len(text) : text[j] = NL}
    IN  IF ends = {} THEN SubSeq(text, pos0 + 1, Len(text))
        ELSE SubSeq(text, pos0 + 1, CHOOSE j \in ends : \A i \in ends : j <= i)

\* line.split('*'): always at least one field, empty fields kept.
RECURSIVE SplitOn(_, _, _)
SplitOn(line, sep, cur) ==
    IF line = <<>> THEN <<cur>>
    ELSE IF Head(line) = sep THEN <<cur>> \o SplitOn(Tail(line), sep, <<>>)
    ELSE SplitOn(Tail(line), sep, Append(cur, Head(line)))

Split(line) == SplitOn(line, Star, <<>>)

\* variant: the field count compared with 8
HasMoreThanEight(data) == Len(data) > 8

\* len(data) > 7
HasRecordFields(data) == Len(data) > 7

----------------------------------------------------------------------------
(* int(text): white space stripped on both sides, an optional sign, then   *)
(* decimal digits in which single underscores may separate digits.         *)

RECURSIVE LStrip(_)
LStrip(s) == IF s # <<>> /\ Head(s) \in Whitespace THEN LStrip(Tail(s)) ELSE s

Strip(s) == Reverse(LStrip(Reverse(LStrip(s))))

IntBody(s) ==
    LET t == Strip(s)
    IN  IF t # <<>> /\ Head(t) \in {"+", "-"} THEN Tail(t) ELSE t

IntNegative(s) ==
    LET t == Strip(s) IN t # <<>> /\ Head(t) = "-"

IntAccepts(s) ==
    LET b == IntBody(s)
    IN  /\ b # <<>>
        /\ \A i \in 1..Len(b) : b[i] \in DigitSet \cup {"_"}
        /\ b[1] # "_" /\ b[Len(b)] # "_"
        /\ \A i \in 1..(Len(b) - 1) : ~(b[i] = "_" /\ b[i + 1] = "_")

RECURSIVE DigitsValue(_, _)
DigitsValue(b, acc) ==
    IF b = <<>> THEN acc
    ELSE IF Head(b) = "_" THEN DigitsValue(Tail(b), acc)
    ELSE DigitsValue(Tail(b), 10 * acc + DigitVal(Head(b)))

IntValue(s) ==
    IF IntNegative(s) THEN 0 - DigitsValue(IntBody(s), 0)
    ELSE DigitsValue(IntBody(s), 0)

----------------------------------------------------------------------------
(* The record built from a line, the filter and the sort.                  *)

\* data[0], int(data[1]), int(data[2]), data[7]  (fields are 1-based here)
Current(data) ==
    [freqStart   |-> IntValue(data[2]),
     freqStop    |-> IntValue(data[3]),
     description |-> data[1],
     url         |-> data[8]]

\* both frequency fields are accepted by int()
Parses(data) == IntAccepts(data[2]) /\ IntAccepts(data[3])

\* variant: "and" in place of "or"
RetainedBothNonZero(current) == current.freqStart # 0 /\ current.freqStop # 0

\* if (freqStart != 0 or freqStop != 0)
Retained(current) == current.freqStart # 0 \/ current.freqStop # 0

\* key=lambda x: x["freqStop"] - x["freqStart"]
Bandwidth(x) == x.freqStop - x.freqStart

\* one step of the binary insertion sort list.sort() runs on short lists:
\* x goes after every element whose key is not greater than its own.
RECURSIVE InsertRight(_, _)
InsertRight(sorted, x) ==
    IF sorted = <<>> THEN <<x>>
    ELSE IF Bandwidth(Head(sorted)) <= Bandwidth(x)
         THEN <<Head(sorted)>> \o InsertRight(Tail(sorted), x)
         ELSE <<x>> \o sorted

RECURSIVE StableSortAsc(_)
StableSortAsc(s) ==
    IF s = <<>> THEN <<>>
    ELSE InsertRight(StableSortAsc(SubSeq(s, 1, Len(s) - 1)), s[Len(s)])

\* variant: reverse=True forgotten
SortForward(s) == StableSortAsc(s)

\* variant: sorted in increasing order, then reversed
SortThenReverse(s) == Reverse(StableSortAsc(s))

\* list.sort(key=..., reverse=True): the list is reversed, sorted stably in
\* increasing key order and reversed again.
SortReverse(s) == Reverse(StableSortAsc(Reverse(s)))

----------------------------------------------------------------------------
(* Formatting: str(int), repr(str), str(dict) and the JSON encoder.        *)
(* Formatted text is a sequence of pieces, input characters or literals.   *)

RECURSIVE NatStr(_)
NatStr(n) == IF n < 10 THEN <<Digits[n + 1]>> ELSE NatStr(n \div 10) \o <<Digits[(n % 10) + 1]>>

IntStr(n) == IF n < 0 THEN <<"-">> \o NatStr(0 - n) ELSE NatStr(n)

\* the escapes repr() and the JSON encoder share on this alphabet
RECURSIVE Escape(_)
Escape(s) ==
    IF s = <<>> THEN <<>>
    ELSE (CASE Head(s) = NL   -> <<"\\", "n">>
            [] Head(s) = "\t" -> <<"\\", "t">>
            [] Head(s) = "\\" -> <<"\\", "\\">>
            [] OTHER          -> <<Head(s)>>) \o Escape(Tail(s))

\* repr() of a string holding no quote character
Repr(s) == <<"'">> \o Escape(s) \o <<"'">>

\* str(current): the keys in the order of the dict display
DictStr(current) ==
    <<"{'freqStart': ">> \o IntStr(current.freqStart)
    \o <<", 'freqStop': ">> \o IntStr(current.freqStop)
    \o <<", 'description': ">> \o Repr(current.description)
    \o <<", 'url': ">> \o Repr(current.url) \o <<"}">>

\* variant: the record printed without the prefix
DiagnosticBare(current) == DictStr(current)

\* "Skipping: " + str(current)
Diagnostic(current) == <<"Skipping: ">> \o DictStr(current)

JsonString(s) == <<"\"">> \o Escape(s) \o <<"\"">>

\* one object under sort_keys=True and the default separators
JsonObject(x) ==
    <<"{\"description\": ">> \o JsonString(x.description)
    \o <<", \"freqStart\": ">> \o IntStr(x.freqStart)
    \o <<", \"freqStop\": ">> \o IntStr(x.freqStop)
    \o <<", \"url\": ">> \o JsonString(x.url) \o <<"}">>

\* the pieces json.dump hands to f.write, taken one array element at a time
JsonChunks(xs) ==
    IF xs = <<>> THEN << <<"[]">> >>
    ELSE [i \in 1..(Len(xs) + 1) |->
            IF i = Len(xs) + 1 THEN <<"]">>
            ELSE (IF i = 1 THEN <<"[">> ELSE <<", ">>) \o JsonObject(xs[i])]

JsonText(xs) == Flatten(JsonChunks(xs))

----------------------------------------------------------------------------
(* The files a run can find.                                               *)

RECURSIVE Join(_)
Join(fields) ==
    IF Len(fields) = 1 THEN fields[1]
    ELSE fields[1] \o <<Star>> \o Join(Tail(fields))

Filler == <<"x">>
Url == <<"u">>

\* a line of db.csv: description, two frequency fields, then the given
\* fields, then the line terminator
Line(description, freqStart, freqStop, others) ==
    Join(<<description, freqStart, freqStop>> \o others) \o <<NL>>

ToUrl == <<Filler, Filler, Filler, Filler, Url>>

\* terminated lines: the zero-zero record written two ways; bandwidths 1
\* (twice, once with a zero bound), -8 and, with nine fields, 0; a malformed
\* frequency field next to a zero, with eight fields and with seven; and the
\* empty line
TerminatedLines ==
    { Line(<<"a">>, <<"0">>, <<"0">>, ToUrl),
      Line(<<"b">>, <<" ", "0">>, <<"-", "0">>, ToUrl),
      Line(<<"a">>, <<"1">>, <<"2">>, ToUrl),
      Line(<<"b">>, <<"-", "1">>, <<"0">>, ToUrl),
      Line(<<"a">>, <<"1", "_", "0">>, <<"2">>, ToUrl),
      Line(<<"b">>, <<"2">>, <<"2">>, ToUrl \o <<Filler>>),
      Line(<<"a">>, <<"x">>, <<"0">>, ToUrl),
      Line(<<"a">>, <<"x">>, <<"0">>, <<Filler, Filler, Filler, Filler>>),
      <<NL>> }

\* a last line without terminator, of bandwidth 1
OpenLines ==
    { Join(<<<<"b">>, <<"1">>, <<"2">>>> \o ToUrl) }

\* texts of at most n terminated lines
RECURSIVE Texts(_)
Texts(n) ==
    IF n = 0 THEN {<<>>}
    ELSE LET shorter == Texts(n - 1)
         IN  shorter \cup {l \o t : l \in TerminatedLines, t \in shorter}

\* db.csv: missing, or up to MaxLines lines of which only the last may lack
\* its terminator
InputFiles ==
    {[exists |-> FALSE, text |-> <<>>]}
    \cup {[exists |-> TRUE, text |-> t] : t \in Texts(MaxLines)}
    \cup {[exists |-> TRUE, text |-> t \o l] : t \in Texts(MaxLines - 1), l \in OpenLines}

Absent == [exists |-> FALSE, content |-> <<>>]

\* frequencies.json before the run: absent, or left by an earlier run
OutputFiles == {Absent, [exists |-> TRUE, content |-> <<"[]">>]}

----------------------------------------------------------------------------
(* The run of main().                                                      *)

Init ==
    /\ inFile \in InputFiles
    /\ prior \in OutputFiles
    /\ outFile = prior
    /\ pc = "open_in"
    /\ err = "none"
    /\ pos = 0
    /\ out = <<>>
    /\ stdout = <<>>
    /\ nchunks = 0

\* variant: both files opened before the loop
OpenInputEager ==
    /\ pc = "open_in"
    /\ inFile.exists
    /\ pc' = "loop"
    /\ outFile' = [exists |-> TRUE, content |-> <<>>]
    /\ UNCHANGED <<inFile, prior, err, pos, out, stdout, nchunks>>

\* open("db.csv", "r")
OpenInput ==
    /\ pc = "open_in"
    /\ inFile.exists
    /\ pc' = "loop"
    /\ UNCHANGED <<inFile, outFile, prior, err, pos, out, stdout, nchunks>>

\* ... raises when there is no such file
OpenInputFail ==
    /\ pc = "open_in"
    /\ ~inFile.exists
    /\ pc' = "failed"
    /\ err' = "FileNotFoundError"
    /\ UNCHANGED <<inFile, outFile, prior, pos, out, stdout, nchunks>>

\* one iteration of "for line in f" on a line with fewer than eight fields
SkipLine ==
    /\ pc = "loop"
    /\ pos < Len(inFile.text)
    /\ LET line == NextLine(inFile.text, pos)
           data == Split(line)
       IN  /\ ~HasRecordFields(data)
           /\ pos' = pos + Len(line)
    /\ UNCHANGED <<inFile, outFile, prior, pc, err, out, stdout, nchunks>>

\* variant: the malformed line skipped, the loop going on
ParseSkip ==
    /\ pc = "loop"
    /\ pos < Len(inFile.text)
    /\ LET line == NextLine(inFile.text, pos)
           data == Split(line)
       IN  /\ HasRecordFields(data) /\ ~Parses(data)
           /\ pos' = pos + Len(line)
    /\ UNCHANGED <<inFile, outFile, prior, pc, err, out, stdout, nchunks>>

\* one iteration in which int() raises ValueError
ParseFail ==
    /\ pc = "loop"
    /\ pos < Len(inFile.text)
    /\ LET line == NextLine(inFile.text, pos)
           data == Split(line)
       IN  /\ HasRecordFields(data) /\ ~Parses(data)
           /\ pos' = pos + Len(line)
    /\ pc' = "failed"
    /\ err' = "ValueError"
    /\ UNCHANGED <<inFile, outFile, prior, out, stdout, nchunks>>

\* one iteration that appends the record
RetainLine ==
    /\ pc = "loop"
    /\ pos < Len(inFile.text)
    /\ LET line == NextLine(inFile.text, pos)
           data == Split(line)
       IN  /\ HasRecordFields(data) /\ Parses(data)
           /\ Retained(Current(data))
           /\ out' = Append(out, Current(data))
           /\ pos' = pos + Len(line)
    /\ UNCHANGED <<inFile, outFile, prior, pc, err, stdout, nchunks>>

\* variant: the diagnostic put in front of the earlier ones
DropLinePrepend ==
    /\ pc = "loop"
    /\ pos < Len(inFile.text)
    /\ LET line == NextLine(inFile.text, pos)
           data == Split(line)
       IN  /\ HasRecordFields(data) /\ Parses(data)
           /\ ~Retained(Current(data))
           /\ stdout' = <<Diagnostic(Current(data))>> \o stdout
           /\ pos' = pos + Len(line)
    /\ UNCHANGED <<inFile, outFile, prior, pc, err, out, nchunks>>

\* one iteration that prints the zero-zero record
DropLine ==
    /\ pc = "loop"
    /\ pos < Len(inFile.text)
    /\ LET line == NextLine(inFile.text, pos)
           data == Split(line)
       IN  /\ HasRecordFields(data) /\ Parses(data)
           /\ ~Retained(Current(data))
           /\ stdout' = Append(stdout, Diagnostic(Current(data)))
           /\ pos' = pos + Len(line)
    /\ UNCHANGED <<inFile, outFile, prior, pc, err, out, nchunks>>

\* end of the file: the input is closed and out.sort(...) runs
Sort ==
    /\ pc = "loop"
    /\ pos = Len(inFile.text)
    /\ out' = SortReverse(out)
    /\ pc' = "open_out"
    /\ UNCHANGED <<inFile, outFile, prior, err, pos, stdout, nchunks>>

\* variant: the file opened for appending
OpenOutputAppend ==
    /\ pc = "open_out"
    /\ outFile' = [exists |-> TRUE, content |-> outFile.content]
    /\ pc' = "dump"
    /\ UNCHANGED <<inFile, prior, err, pos, out, stdout, nchunks>>

\* open("frequencies.json", "w") creates or truncates the file
OpenOutput ==
    /\ pc = "open_out"
    /\ outFile' = [exists |-> TRUE, content |-> <<>>]
    /\ pc' = "dump"
    /\ UNCHANGED <<inFile, prior, err, pos, out, stdout, nchunks>>

\* ... or raises OSError when the path cannot be opened for writing
OpenOutputFail ==
    /\ pc = "open_out"
    /\ pc' = "failed"
    /\ err' = "OSError"
    /\ UNCHANGED <<inFile, outFile, prior, pos, out, stdout, nchunks>>

\* json.dump: the next piece of the array reaches the file
WriteChunk ==
    /\ pc = "dump"
    /\ nchunks < Len(JsonChunks(out))
    /\ outFile' = [outFile EXCEPT !.content = @ \o JsonChunks(out)[nchunks + 1]]
    /\ nchunks' = nchunks + 1
    /\ UNCHANGED <<inFile, prior, pc, err, pos, out, stdout>>

\* ... or the write raises OSError and what was written stays
WriteFail ==
    /\ pc = "dump"
    /\ nchunks < Len(JsonChunks(out))
    /\ pc' = "failed"
    /\ err' = "OSError"
    /\ UNCHANGED <<inFile, outFile, prior, pos, out, stdout, nchunks>>

\* the with block closes the file and main() returns
Close ==
    /\ pc = "dump"
    /\ nchunks = Len(JsonChunks(out))
    /\ pc' = "done"
    /\ UNCHANGED <<inFile, outFile, prior, err, pos, out, stdout, nchunks>>

Next ==
    \/ OpenInput
    \/ OpenInputFail
    \/ SkipLine
    \/ ParseFail
    \/ RetainLine
    \/ DropLine
    \/ Sort
    \/ OpenOutput
    \/ OpenOutputFail
    \/ WriteChunk
    \/ WriteFail
    \/ Close

Spec == Init /\ [][Next]_vars

TypeOK ==
    /\ pc \in {"open_in", "loop", "open_out", "dump", "done", "failed"}
    /\ err \in {"none", "FileNotFoundError", "ValueError", "OSError"}
    /\ pos \in 0..Len(inFile.text)
    /\ nchunks \in 0..(Len(out) + 1)

----------------------------------------------------------------------------
(* What the input file says, line by line.  A line is given by its fields, *)
(* numbered from 0 as in the program.                                      *)

RECURSIVE LinesFrom(_, _)
LinesFrom(text, p) ==
    IF p >= Len(text) THEN <<>>
    ELSE LET l == NextLine(text, p) IN <<l>> \o LinesFrom(text, p + Len(l))

FieldsOf(lines) == [k \in 1..Len(lines) |-> Split(lines[k])]

\* the lines of the file, and those the loop has read
AllLines == FieldsOf(LinesFrom(inFile.text, 0))
LinesRead == FieldsOf(LinesFrom(SubSeq(inFile.text, 1, pos), 0))

Field(d, i) == d[i + 1]

WellFormed(d) ==
    Len(d) >= 8 /\ IntAccepts(Field(d, 1)) /\ IntAccepts(Field(d, 2))

Malformed(d) == Len(d) >= 8 /\ ~WellFormed(d)

ZeroZero(d) ==
    WellFormed(d) /\ IntValue(Field(d, 1)) = 0 /\ IntValue(Field(d, 2)) = 0

Kept(d) == WellFormed(d) /\ ~ZeroZero(d)

EntryOf(d) ==
    [description |-> Field(d, 0),
     freqStart   |-> IntValue(Field(d, 1)),
     freqStop    |-> IntValue(Field(d, 2)),
     url         |-> Field(d, 7)]

\* the entries of the kept lines, in input order
RECURSIVE KeptOf(_)
KeptOf(ds) ==
    IF ds = <<>> THEN <<>>
    ELSE (IF Kept(Head(ds)) THEN <<EntryOf(Head(ds))>> ELSE <<>>) \o KeptOf(Tail(ds))

\* the diagnostics of the zero-zero lines, in input order
RECURSIVE DiagsOf(_)
DiagsOf(ds) ==
    IF ds = <<>> THEN <<>>
    ELSE (IF ZeroZero(Head(ds))
          THEN << <<"Skipping: ">> \o DictStr(EntryOf(Head(ds))) >>
          ELSE <<>>) \o DiagsOf(Tail(ds))

ShortIn(ds) == Cardinality({k \in 1..Len(ds) : Len(ds[k]) < 8})

\* the first malformed line, 0 when there is none
FirstMalformed(ds) ==
    IF \E k \in 1..Len(ds) : Malformed(ds[k])
    THEN CHOOSE k \in 1..Len(ds) :
            Malformed(ds[k]) /\ \A j \in 1..(k - 1) : ~Malformed(ds[j])
    ELSE 0

Range(s) == {s[i] : i \in 1..Len(s)}
BagOfSeq(s) == [x \in Range(s) |-> Cardinality({i \in 1..Len(s) : s[i] = x})]

Width(x) == x.freqStop - x.freqStart
WithWidth(s, w) == SelectSeq(s, LAMBDA x : Width(x) = w)

IsPrefix(p, s) == Len(p) <= Len(s) /\ SubSeq(s, 1, Len(p)) = p

PastLoop == pc \in {"open_out", "dump", "done"} \/ err = "OSError"

----------------------------------------------------------------------------
(* Claims.                                                                 *)

\* C1: on a run that completes, the output array holds exactly one entry for
\* every line with at least 8 fields whose bounds are not both zero (fields
\* 0, 1, 2 and 7 of the line as split, the numbers parsed), duplicates
\* included, and nothing else.
C1_OneEntryPerKeptLine ==
    pc = "done" =>
        /\ outFile.exists
        /\ outFile.content = JsonText(out)
        /\ BagOfSeq(out) = BagOfSeq(KeptOf(AllLines))

C1_Witness ==
    /\ pc = "done"
    /\ \E i, j \in 1..Len(out) : i < j /\ out[i] = out[j]
    /\ \E i \in 1..Len(out) : out[i].freqStart # 0 /\ out[i].freqStop = 0
    /\ Len(out) < Len(AllLines)

\* C2 as stated: when the run has ended, every line with at least 8 fields
\* that parses to 0 and 0 has exactly one diagnostic on standard output, and
\* there is no other diagnostic.
C2_DiagnosticForEveryZeroZeroLine ==
    pc \in {"done", "failed"} =>
        BagOfSeq(stdout) = BagOfSeq(DiagsOf(AllLines))

\* C2 amended: the lines read so far that parse to 0 and 0 have exactly one
\* diagnostic "Skipping: <record>" each and no entry, no other diagnostic is
\* printed, and a run that gets past the loop has read every line.
C2_DiagnosticForEveryZeroZeroLineRead ==
    /\ BagOfSeq(stdout) = BagOfSeq(DiagsOf(LinesRead))
    /\ \A i \in 1..Len(out) : out[i].freqStart # 0 \/ out[i].freqStop # 0
    /\ PastLoop => pos = Len(inFile.text)

C2_Witness ==
    /\ pc = "done"
    /\ Len(stdout) = 1
    /\ Len(out) >= 1
    /\ \E k \in 1..Len(AllLines) :
          ZeroZero(AllLines[k]) /\ Field(AllLines[k], 1) # <<"0">>

\* C3: an iteration on a line with fewer than 8 fields adds no entry, prints
\* nothing and does not fail, whatever the fields hold; an iteration on a
\* line with exactly 8 fields adds an entry, prints a diagnostic or fails.
C3_ShortLinesSkippedSilently ==
    [][(pc = "loop" /\ pos < Len(inFile.text)) =>
         LET line == NextLine(inFile.text, pos)
             d == Split(line)
         IN  /\ Len(d) < 8 =>
                  (out' = out /\ stdout' = stdout /\ pc' = "loop"
                      /\ pos' = pos + Len(line))
             /\ Len(d) = 8 =>
                  (out' # out \/ stdout' # stdout \/ pc' = "failed")]_vars

C3_Witness ==
    /\ pc = "done"
    /\ LET ds == AllLines
       IN  /\ \E k \in 1..Len(ds) : Len(ds[k]) = 7 /\ ~IntAccepts(Field(ds[k], 1))
           /\ \E k \in 1..Len(ds) : ds[k] = << <<NL>> >>
           /\ \E k \in 1..Len(ds) : Len(ds[k]) = 8

\* C4: in the written array every entry is at least as wide as the next one.
C4_DescendingBandwidth ==
    pc = "done" =>
        /\ outFile.content = JsonText(out)
        /\ \A i \in 1..(Len(out) - 1) :
              (out[i].freqStop - out[i].freqStart)
                  >= (out[i + 1].freqStop - out[i + 1].freqStart)

C4_Witness ==
    /\ pc = "done"
    /\ Len(out) >= 3
    /\ out # KeptOf(AllLines)
    /\ \E i \in 1..Len(out) : Width(out[i]) < 0
    /\ \E i \in 1..Len(out) : Width(out[i]) = 0

\* C5: entries of equal bandwidth keep the order of their lines in the file.
C5_StableSort ==
    pc \in {"open_out", "dump", "done"} =>
        LET kept == KeptOf(AllLines)
        IN  \A w \in {Width(x) : x \in Range(out)} :
                WithWidth(out, w) = WithWidth(kept, w)

C5_Witness ==
    /\ pc = "done"
    /\ \E i, j \in 1..Len(out) : i < j /\ Width(out[i]) = Width(out[j]) /\ out[i] # out[j]
    /\ out # KeptOf(AllLines)


\* C6: a kept line of exactly 8 fields that ends with a line terminator
\* yields an entry whose url is the eighth field without the terminator.
C6_UrlWithoutTerminator ==
    pc = "done" =>
        LET ds == AllLines
        IN  \A k \in 1..Len(ds) :
                LET d == ds[k]
                    last == Field(d, 7)
                IN  (Len(d) = 8 /\ Kept(d) /\ last # <<>> /\ last[Len(last)] = NL) =>
                        \E i \in 1..Len(out) :
                            out[i] = [EntryOf(d) EXCEPT
                                         !.url = SubSeq(last, 1, Len(last) - 1)]

\* C7: the run ends in the parse failure exactly when some line with at
\* least 8 fields has a frequency field int() rejects; it fails on reading
\* the first such line, with the entries and diagnostics of the lines before
\* it and of no later line, lines with fewer than 8 fields never count, and
\* nothing runs after the failure.
C7_ParseFailureAtFirstMalformedLine ==
    /\ [](LET first == FirstMalformed(AllLines)
              read == LinesRead
          IN  /\ err = "ValueError" =>
                    /\ pc = "failed"
                    /\ first # 0
                    /\ Len(read) = first
                    /\ out = KeptOf(SubSeq(read, 1, first - 1))
                    /\ stdout = DiagsOf(SubSeq(read, 1, first - 1))
              /\ PastLoop => first = 0
              /\ (pc = "loop" /\ first # 0) => Len(read) < first)
    /\ [][pc # "failed"]_vars

C7_Witness ==
    /\ err = "ValueError"
    /\ LET ds == AllLines
           first == FirstMalformed(ds)
       IN  /\ first = 2
           /\ Len(ds) = 3
           /\ Len(ds[1]) = 7 /\ ~IntAccepts(Field(ds[1], 1))
           /\ IntAccepts(Field(ds[2], 2)) /\ IntValue(Field(ds[2], 2)) = 0
           /\ ZeroZero(ds[3])

\* C8 as stated: the output path always shows either its prior state or the
\* complete final array.
C8_PriorOrCompleteArray ==
    \/ outFile = prior
    \/ /\ pc \in {"dump", "done"}
       /\ outFile.exists
       /\ outFile.content = JsonText(out)

\* C8 amended: the output path shows its prior state until the file is
\* opened after the sort, from then on an existing file holding a prefix of
\* the final array, the empty one first, and the complete array once the run
\* is done; a failed write leaves such a prefix behind.
C8_PriorThenPrefixThenCompleteArray ==
    /\ pc \in {"open_in", "loop", "open_out"} => outFile = prior
    /\ pc = "dump" =>
          /\ outFile.exists
          /\ outFile.content = Flatten(SubSeq(JsonChunks(out), 1, nchunks))
          /\ IsPrefix(outFile.content, JsonText(out))
    /\ pc = "done" => outFile.exists /\ outFile.content = JsonText(out)
    /\ pc = "failed" =>
          \/ outFile = prior
          \/ /\ err = "OSError"
             /\ outFile.exists
             /\ IsPrefix(outFile.content, JsonText(out))
             /\ outFile.content # JsonText(out)

C8_Witness ==
    /\ pc = "failed"
    /\ err = "OSError"
    /\ prior.exists
    /\ outFile # prior
    /\ nchunks >= 1
    /\ Len(out) >= 2

\* C9: the output file changes only after every line has been read and the
\* entries sorted, and a run that fails on a missing input file or on a
\* malformed frequency field leaves the output path as it was.
C9_OutputUntouchedBeforeSort ==
    /\ [](/\ pc \in {"open_in", "loop", "open_out"} => outFile = prior
          /\ err \in {"FileNotFoundError", "ValueError"} => outFile = prior)
    /\ [][outFile' # outFile =>
            /\ pc \in {"open_out", "dump"}
            /\ pos = Len(inFile.text)
            /\ out = SortReverse(KeptOf(AllLines))]_vars

C9_Witness ==
    /\ err = "ValueError"
    /\ prior.exists
    /\ Len(out) >= 1
    /\ outFile = prior

\* C10: every line read is skipped silently, dropped with a diagnostic,
\* retained, or is the one the run failed on; the diagnostics are those of
\* the zero-zero lines read, in input order, and all of them are printed
\* before the output file is opened.
C10_EveryLineClassifiedOnce ==
    LET read == LinesRead
        failedHere == IF err = "ValueError" THEN 1 ELSE 0
    IN  /\ Len(out) + Len(stdout) + ShortIn(read) + failedHere = Len(read)
        /\ stdout = DiagsOf(read)
        /\ pc = "done" => read = AllLines
        /\ pc \in {"open_out", "dump", "done"} => stdout = DiagsOf(AllLines)

C10_Witness ==
    /\ pc = "done"
    /\ Len(stdout) = 2
    /\ stdout[1] # stdout[2]
    /\ ShortIn(AllLines) = 1

====
